---- MODULE Spec2Model ----
(***************************************************************************)
(* Model of the video-description-pipeline extraction service:             *)
(*   - ExtractHandler.ServeHTTP (internal/handler/extract.go), the         *)
(*     orchestrator that runs the ASR and VLM streams in two goroutines    *)
(*     and aggregates their streamResult values;                           *)
(*   - streams.RunASR / groupWordsIntoChunks (Deepgram transcript stream); *)
(*   - streams.RunVLM / callGemini (Gemini visual-description stream);     *)
(*   - r2.Client (object store reads and writes).                          *)
(*                                                                         *)
(* Go strings are modelled as sequences of tokens (a token is one          *)
(* character of generated text, or one fixed piece of a format string),   *)
(* so that the empty string is << >>, concatenation is \o and             *)
(* strings.TrimSpace is computed.  Times are integers in tenths of a       *)
(* second.                                                                 *)
(***************************************************************************)
EXTENDS Integers, Sequences, FiniteSets, TLC

VARIABLES
    req,            \* the incoming HTTP request (method, body, ad_id)
    cfg,            \* config.Config: DeepgramAPIKey, GeminiAPIKey
    cancelled,      \* ctx.Done() is closed (5 minute timeout / client gone)
    pc,             \* position of ServeHTTP
    videoBytes,     \* result of r2.DownloadVideo
    keyframeMetas,  \* result of r2.DownloadKeyframeMetadata
    gets,           \* GetObject calls of r2.DownloadKeyframeImages, with their result
    keyframeInputs, \* []streams.KeyframeInput built by ServeHTTP
    mu,             \* sync.Mutex: "free" or the goroutine holding it
    results,        \* []streamResult shared by ServeHTTP and the goroutines
    wg,             \* sync.WaitGroup counter
    hdr,            \* per thread: slice header read by a running append
    spc,            \* per stream: position of its goroutine
    sr,             \* per stream: the streamResult its goroutine computed
    asrPc,          \* position inside streams.RunASR
    asrCalls,       \* requests received by the Deepgram endpoint
    asrResp,         \* the exchange RunASR went through with the endpoint
    asrRet,         \* return value of streams.RunASR
    vlmPc,          \* position inside streams.RunVLM
    keyframes,      \* RunVLM parameter
    kfIdx,          \* RunVLM loop position (1-based index of kf)
    prevDesc,       \* RunVLM local prevDesc
    result,         \* RunVLM local result.Frames
    vlmRet,         \* return value of streams.RunVLM
    inflight,       \* Gemini requests sent and not yet answered
    geminiLog,      \* requests received by the Gemini endpoint, in order
    frameErrs,      \* per processed keyframe: did callGemini return an error
    lastResp,       \* the exchange callGemini is about to process
    puts,           \* PutObject calls made to the object store, with their result
    response        \* what ServeHTTP wrote to the http.ResponseWriter

vars == << req, cfg, cancelled, pc, videoBytes, keyframeMetas, gets,
           keyframeInputs, mu, results, wg, hdr, spc, sr, asrPc, asrCalls,
           asrResp, asrRet, vlmPc, keyframes, kfIdx, prevDesc, result, vlmRet,
           inflight, geminiLog, frameErrs, lastResp, puts, response >>

handlerVars == << req, cfg, pc, videoBytes, keyframeMetas, gets,
                  keyframeInputs, mu, results, wg, hdr, spc, sr, puts,
                  response >>
asrVars == << asrPc, asrCalls, asrResp, asrRet >>
vlmVars == << vlmPc, keyframes, kfIdx, prevDesc, result, vlmRet, inflight,
              geminiLog, frameErrs, lastResp >>

(***************************************************************************)
(* Bounds                                                                  *)
(***************************************************************************)
MaxFrames == 2      \* longest keyframe list
MaxTextLen == 2     \* longest text a provider generates, in characters
MaxUtterances == 2  \* longest utterance list in a Deepgram response
MaxWords == 3       \* longest word list in a Deepgram response

(***************************************************************************)
(* Strings                                                                 *)
(***************************************************************************)
Space == " "
Chars == {Space, "a"}

RECURSIVE SeqsUpTo(_, _)
SeqsUpTo(S, n) ==
    IF n = 0 THEN {<< >>}
    ELSE LET shorter == SeqsUpTo(S, n - 1)
         IN  shorter \cup {Append(s, c) : s \in shorter, c \in S}

Texts == SeqsUpTo(Chars, MaxTextLen)

RECURSIVE TrimLeft(_)
TrimLeft(s) ==
    IF s = << >> THEN << >>
    ELSE IF Head(s) = Space THEN TrimLeft(Tail(s)) ELSE s

RECURSIVE TrimRight(_)
TrimRight(s) ==
    IF s = << >> THEN << >>
    ELSE IF s[Len(s)] = Space THEN TrimRight(SubSeq(s, 1, Len(s) - 1)) ELSE s

TrimSpace(s) == TrimRight(TrimLeft(s))

NoError == [isErr |-> FALSE, msg |-> << >>]
Errorf(msg) == [isErr |-> TRUE, msg |-> msg]

(***************************************************************************)
(* streams.callGemini                                                      *)
(***************************************************************************)
StatusOK == 200
StatusTooManyRequests == 429

\* What one HTTP exchange with the Gemini endpoint can produce.  doOK is the
\* result of http.DefaultClient.Do, readOK of io.ReadAll(resp.Body),
\* wellFormed of json.Unmarshal, hasError is gemResp.Error != nil and
\* candidates[c][p] is gemResp.Candidates[c].Content.Parts[p].Text.
OKResponse(cands) ==
    [doOK |-> TRUE, readOK |-> TRUE, status |-> StatusOK, wellFormed |-> TRUE,
     hasError |-> FALSE, candidates |-> cands]

PartLists ==
    {<< >>} \cup {<<t>> : t \in Texts} \cup {<<t, <<"a">>>> : t \in {<< >>, <<"a">>}}
CandidateLists ==
    {<< >>} \cup {<<parts>> : parts \in PartLists} \cup {<< << >>, <<<<"a">>>> >>}

GoodCandidates == << <<<<"a">>>> >>
NoResponse == [OKResponse(<< >>) EXCEPT !.doOK = FALSE]

GeminiResponses ==
    {OKResponse(c) : c \in CandidateLists}
    \cup {[OKResponse(GoodCandidates) EXCEPT !.doOK = FALSE],
          [OKResponse(GoodCandidates) EXCEPT !.readOK = FALSE],
          [OKResponse(GoodCandidates) EXCEPT !.status = StatusTooManyRequests],
          [OKResponse(GoodCandidates) EXCEPT !.wellFormed = FALSE],
          [OKResponse(GoodCandidates) EXCEPT !.hasError = TRUE]}

\* The exchanges explored when RunVLM runs inside the handler: a description,
\* blank generated text, a non-OK status and a transport failure.
HandlerGeminiResponses ==
    {OKResponse(GoodCandidates),
     OKResponse(<< <<<<Space>>>> >>),
     [OKResponse(GoodCandidates) EXCEPT !.status = StatusTooManyRequests],
     [OKResponse(GoodCandidates) EXCEPT !.doOK = FALSE]}

\* A request whose context is done fails in Do or while reading the body.
GeminiOutcomes(ctxDone, all) ==
    LET exchanges == IF all THEN GeminiResponses ELSE HandlerGeminiResponses
    IN  IF ctxDone THEN {r \in exchanges : ~r.doOK \/ ~r.readOK}
        ELSE exchanges

callGemini(resp) ==
    IF ~resp.doOK THEN
        [desc |-> << >>, err |-> Errorf(<<"gemini request: ">>)]
    ELSE IF ~resp.readOK THEN
        [desc |-> << >>, err |-> Errorf(<<"read response: ">>)]
    ELSE IF resp.status # StatusOK THEN
        [desc |-> << >>, err |-> Errorf(<<"gemini returned ", ToString(resp.status)>>)]
    ELSE IF ~resp.wellFormed THEN
        [desc |-> << >>, err |-> Errorf(<<"decode response: ">>)]
    ELSE IF resp.hasError THEN
        [desc |-> << >>, err |-> Errorf(<<"gemini error: ">>)]
    ELSE IF Len(resp.candidates) = 0 \/ Len(resp.candidates[1]) = 0 THEN
        [desc |-> << >>, err |-> Errorf(<<"empty response from gemini">>)]
    ELSE
        [desc |-> TrimSpace(resp.candidates[1][1]), err |-> NoError]

(***************************************************************************)
(* streams.RunASR and groupWordsIntoChunks                                 *)
(***************************************************************************)
StatusInternalServerError == 500
ChunkDuration == 30     \* the 3.0 passed to groupWordsIntoChunks, in tenths

ASRSegment(start, end, text) == [Start |-> start, End |-> end, Text |-> text]

\* strings.Join(elems, " ")
RECURSIVE Join(_)
Join(elems) ==
    IF elems = << >> THEN << >>
    ELSE IF Len(elems) = 1 THEN elems[1]
    ELSE elems[1] \o <<Space>> \o Join(Tail(elems))

ChunkStep_Strict(st, w, chunkDuration) ==
    LET chunkStart == IF ~st.started THEN w.Start ELSE st.chunkStart
        chunk      == Append(st.chunk, w.Word)
    IN  IF w.End - chunkStart > chunkDuration
        THEN [segments   |-> Append(st.segments,
                                 ASRSegment(chunkStart, w.End, Join(chunk))),
              chunk      |-> << >>,
              chunkStart |-> chunkStart,
              started    |-> FALSE]
        ELSE [segments   |-> st.segments,
              chunk      |-> chunk,
              chunkStart |-> chunkStart,
              started    |-> TRUE]

ChunkStep_KeepStart(st, w, chunkDuration) ==
    LET chunkStart == IF ~st.started THEN w.Start ELSE st.chunkStart
        chunk      == Append(st.chunk, w.Word)
    IN  IF w.End - chunkStart >= chunkDuration
        THEN [segments   |-> Append(st.segments,
                                 ASRSegment(chunkStart, w.End, Join(chunk))),
              chunk      |-> << >>,
              chunkStart |-> chunkStart,
              started    |-> TRUE]
        ELSE [segments   |-> st.segments,
              chunk      |-> chunk,
              chunkStart |-> chunkStart,
              started    |-> TRUE]

\* One iteration of the loop over words; st holds the loop's locals.
ChunkStep(st, w, chunkDuration) ==
    LET chunkStart == IF ~st.started THEN w.Start ELSE st.chunkStart
        chunk      == Append(st.chunk, w.Word)
    IN  IF w.End - chunkStart >= chunkDuration
        THEN [segments   |-> Append(st.segments,
                                 ASRSegment(chunkStart, w.End, Join(chunk))),
              chunk      |-> << >>,
              chunkStart |-> chunkStart,
              started    |-> FALSE]
        ELSE [segments   |-> st.segments,
              chunk      |-> chunk,
              chunkStart |-> chunkStart,
              started    |-> TRUE]

RECURSIVE ChunkLoop(_, _, _)
ChunkLoop(st, words, chunkDuration) ==
    IF words = << >> THEN st
    ELSE ChunkLoop(ChunkStep(st, Head(words), chunkDuration), Tail(words),
                   chunkDuration)

groupWordsIntoChunks_NoFlush(words, chunkDuration) ==
    ChunkLoop([segments |-> << >>, chunk |-> << >>,
               chunkStart |-> 0, started |-> FALSE],
              words, chunkDuration).segments

groupWordsIntoChunks(words, chunkDuration) ==
    LET st == ChunkLoop([segments |-> << >>, chunk |-> << >>,
                         chunkStart |-> 0, started |-> FALSE],
                        words, chunkDuration)
    IN  IF Len(st.chunk) > 0 /\ Len(words) > 0
        THEN Append(st.segments,
                    ASRSegment(st.chunkStart, words[Len(words)].End,
                               Join(st.chunk)))
        ELSE st.segments

UtteranceSegment_Untrimmed(u) ==
    IF TrimSpace(u.Transcript) # << >>
    THEN <<ASRSegment(u.Start, u.End, u.Transcript)>>
    ELSE << >>

\* Body of the loop over utterances: what one utterance adds to the segments.
UtteranceSegment(u) ==
    LET text == TrimSpace(u.Transcript)
    IN  IF text # << >> THEN <<ASRSegment(u.Start, u.End, text)>> ELSE << >>

\* Primary path: one segment per utterance whose trimmed transcript is not "".
RECURSIVE UtteranceSegments(_)
UtteranceSegments(utterances) ==
    IF utterances = << >> THEN << >>
    ELSE UtteranceSegment(Head(utterances))
             \o UtteranceSegments(Tail(utterances))

Segments_FallbackOnNoUtterances(dgResp) ==
    LET primary == UtteranceSegments(dgResp.utterances)
    IN  IF Len(dgResp.utterances) = 0 /\ Len(dgResp.channels) > 0
        THEN LET alts == dgResp.channels[1]
             IN  IF Len(alts) > 0
                 THEN groupWordsIntoChunks(alts[1], ChunkDuration)
                 ELSE primary
        ELSE primary

\* The segments RunASR builds from a decoded deepgramResponse.
Segments(dgResp) ==
    LET primary == UtteranceSegments(dgResp.utterances)
    IN  IF Len(primary) = 0 /\ Len(dgResp.channels) > 0
        THEN LET alts == dgResp.channels[1]
             IN  IF Len(alts) > 0
                 THEN groupWordsIntoChunks(alts[1], ChunkDuration)
                 ELSE primary
        ELSE primary

\* What the HTTP exchange with the Deepgram endpoint can produce.  channels[c][a]
\* is asrResp.Results.Channels[c].Alternatives[a].Words.
OKDeepgram(utts, chans) ==
    [doOK |-> TRUE, status |-> StatusOK, wellFormed |-> TRUE,
     utterances |-> utts, channels |-> chans]

Utt(start, end, transcript) ==
    [Start |-> start, End |-> end, Transcript |-> transcript]
Word(word, start, end) == [Word |-> word, Start |-> start, End |-> end]

\* The exchanges explored when RunASR runs inside the handler.
UtteranceLists ==
    { << >>,
      <<Utt(60, 70, <<Space>>)>>,
      <<Utt(0, 25, <<"a">>), Utt(30, 50, <<Space, "a", Space>>),
        Utt(60, 70, <<Space>>)>> }

WordLists ==
    { << >>,
      <<Word(<<"a">>, 0, 10), Word(<<"a">>, 10, 30), Word(<<"a">>, 35, 40)>> }

ChannelLists ==
    {<< >>, << << >> >>} \cup {<< <<words>> >> : words \in WordLists}

NoDeepgramResponse == [OKDeepgram(<< >>, << >>) EXCEPT !.doOK = FALSE]

FailedDeepgramResponses ==
    {NoDeepgramResponse,
     [OKDeepgram(<< >>, << >>) EXCEPT !.status = StatusInternalServerError],
     [OKDeepgram(<< >>, << >>) EXCEPT !.wellFormed = FALSE]}

HandlerDeepgramResponses ==
    {OKDeepgram(u, << >>) : u \in UtteranceLists}
    \cup {OKDeepgram(<<Utt(60, 70, <<Space>>)>>, c) : c \in ChannelLists}
    \cup FailedDeepgramResponses

\* The exchanges explored when RunASR is called on its own: every utterance
\* list and every word list up to the bounds.  A word's token may be empty or
\* a space; a word lasts one of the listed spans (0.0-1.0, 1.0-3.0, 0.0-3.0,
\* 3.0-4.0 s); one word and one utterance end before they start.
UtteranceTimes == {<<0, 25>>, <<30, 50>>, <<50, 30>>}
Utterances == {Utt(t[1], t[2], x) : t \in UtteranceTimes, x \in Texts}
WordTokens == {<< >>, <<Space>>, <<"a">>, <<"b">>}
WordTimes == {<<0, 10>>, <<10, 30>>, <<0, 30>>, <<30, 40>>}
Words ==
    {Word(x, t[1], t[2]) : x \in WordTokens, t \in WordTimes}
    \cup {Word(<<"a">>, 30, 10)}

DeepgramResponses ==
    {OKDeepgram(u, c) : u \in SeqsUpTo(Utterances, MaxUtterances),
                        c \in ChannelLists}
    \cup {OKDeepgram(<< >>, << <<w>> >>) : w \in SeqsUpTo(Words, MaxWords)}
    \cup {[OKDeepgram(u, c) EXCEPT !.status = n] :
              u \in UtteranceLists, c \in ChannelLists,
              n \in {StatusTooManyRequests, StatusInternalServerError}}
    \cup {[OKDeepgram(u, << >>) EXCEPT !.doOK = FALSE] : u \in UtteranceLists}
    \cup {[OKDeepgram(u, << >>) EXCEPT !.wellFormed = FALSE] : u \in UtteranceLists}
    \cup HandlerDeepgramResponses

DeepgramOutcomes_IgnoreCtx(ctxDone, all) ==
    IF all THEN DeepgramResponses ELSE HandlerDeepgramResponses

\* A request whose context is done fails in Do or while decoding the body.
DeepgramOutcomes(ctxDone, all) ==
    LET exchanges == IF all THEN DeepgramResponses ELSE HandlerDeepgramResponses
    IN  IF ctxDone THEN {r \in exchanges : ~r.doOK \/ ~r.wellFormed}
        ELSE exchanges

RunASRResult_IgnoreStatus(resp) ==
    IF ~resp.doOK THEN
        [Segments |-> << >>, err |-> Errorf(<<"deepgram request: ">>)]
    ELSE IF ~resp.wellFormed THEN
        [Segments |-> << >>, err |-> Errorf(<<"decode response: ">>)]
    ELSE
        [Segments |-> Segments(resp), err |-> NoError]

\* The (result, err) pair RunASR returns for an exchange.
RunASRResult(resp) ==
    IF ~resp.doOK THEN
        [Segments |-> << >>, err |-> Errorf(<<"deepgram request: ">>)]
    ELSE IF resp.status # StatusOK THEN
        [Segments |-> << >>,
         err |-> Errorf(<<"deepgram returned ", ToString(resp.status)>>)]
    ELSE IF ~resp.wellFormed THEN
        [Segments |-> << >>, err |-> Errorf(<<"decode response: ">>)]
    ELSE
        [Segments |-> Segments(resp), err |-> NoError]

\* http.DefaultClient.Do(req): the single request to Deepgram is sent.
ASRIssue ==
    /\ asrPc = "entry"
    /\ asrCalls' = asrCalls + 1
    /\ asrPc' = "call"
    /\ UNCHANGED << asrResp, asrRet >>
    /\ UNCHANGED << handlerVars, vlmVars, cancelled >>

\* The exchange with the endpoint ends: Do returns and the body is read.
ASRRespond ==
    /\ asrPc = "call"
    /\ \E resp \in DeepgramOutcomes(cancelled, pc = "detached") : asrResp' = resp
    /\ asrPc' = "responded"
    /\ UNCHANGED << asrCalls, asrRet >>
    /\ UNCHANGED << handlerVars, vlmVars, cancelled >>

\* Lines 67-99: status check, decoding, segments; RunASR returns.
ASRReturn ==
    /\ asrPc = "responded"
    /\ asrRet' = RunASRResult(asrResp)
    /\ asrPc' = "returned"
    /\ UNCHANGED << asrCalls, asrResp >>
    /\ UNCHANGED << handlerVars, vlmVars, cancelled >>

RunASR == ASRIssue \/ ASRRespond \/ ASRReturn

(***************************************************************************)
(* streams.RunVLM                                                          *)
(***************************************************************************)
FirstFrameContext == <<"This is the first frame of the ad.">>

\* %.1f of a time given in tenths of a second
FormatTenths(ts) == <<ToString(ts \div 10), ".", ToString(ts % 10)>>

\* fmt.Sprintf(vlmPromptTemplate, prevDesc, kf.TimestampSec)
Prompt(prev, ts) ==
    <<"Analyze this frame from a video advertisement. Previous frame context: ">>
    \o prev \o <<" Timestamp: ">> \o FormatTenths(ts)
    \o <<"s Describe in 2-3 sentences covering: ...">>

\* fmt.Sprintf("[Error: %v]", err)
ErrorMarker(err) == <<"[Error: ">> \o err.msg \o <<"]">>

FrameDesc_NoMarker(r) == r.desc

\* desc after "if err != nil { desc = ... }"
FrameDesc(r) == IF r.err.isErr THEN ErrorMarker(r.err) ELSE r.desc

NextPrevDesc_Always(prev, desc, err) == desc

\* "if err == nil { prevDesc = desc }"
NextPrevDesc(prev, desc, err) == IF ~err.isErr THEN desc ELSE prev

VLMFrame(kf, desc) ==
    [FrameIndex |-> kf.FrameIndex, TimestampSec |-> kf.TimestampSec,
     Description |-> desc]

AppendFrame_DropFailed(frames, kf, r) ==
    IF r.err.isErr THEN frames ELSE Append(frames, VLMFrame(kf, FrameDesc(r)))

\* result.Frames = append(result.Frames, VLMFrame{...})
AppendFrame(frames, kf, r) == Append(frames, VLMFrame(kf, FrameDesc(r)))

NextKeyframe_Retry(i, err) == IF err.isErr THEN i ELSE i + 1

\* the range loop moves to the next keyframe whatever callGemini returned
NextKeyframe(i, err) == i + 1

\* result := &VLMResult{}; prevDesc := "This is the first frame of the ad."
VLMEntry ==
    /\ vlmPc = "entry"
    /\ result' = << >>
    /\ prevDesc' = FirstFrameContext
    /\ kfIdx' = 1
    /\ vlmPc' = "loop"
    /\ UNCHANGED << keyframes, vlmRet, inflight, geminiLog, frameErrs, lastResp >>
    /\ UNCHANGED << handlerVars, asrVars, cancelled >>

\* Loop head with a keyframe left: build the prompt and send the request.
VLMIssue ==
    /\ vlmPc = "loop"
    /\ kfIdx <= Len(keyframes)
    /\ LET kf == keyframes[kfIdx]
       IN  geminiLog' = Append(geminiLog,
               [prompt |-> Prompt(prevDesc, kf.TimestampSec),
                image  |-> kf.ImageBytes])
    /\ inflight' = inflight + 1
    /\ vlmPc' = "call"
    /\ UNCHANGED << keyframes, kfIdx, prevDesc, result, vlmRet, frameErrs,
                    lastResp >>
    /\ UNCHANGED << handlerVars, asrVars, cancelled >>

\* The exchange with the Gemini endpoint ends (response, or failure).
VLMRespond ==
    /\ vlmPc = "call"
    /\ \E resp \in GeminiOutcomes(cancelled, pc = "detached") : lastResp' = resp
    /\ inflight' = inflight - 1
    /\ vlmPc' = "responded"
    /\ UNCHANGED << keyframes, kfIdx, prevDesc, result, vlmRet, geminiLog,
                    frameErrs >>
    /\ UNCHANGED << handlerVars, asrVars, cancelled >>

\* callGemini returns: record the frame, carry the context, next keyframe.
VLMReturn ==
    /\ vlmPc = "responded"
    /\ LET r  == callGemini(lastResp)
           kf == keyframes[kfIdx]
       IN  /\ result' = AppendFrame(result, kf, r)
           /\ prevDesc' = NextPrevDesc(prevDesc, FrameDesc(r), r.err)
           /\ frameErrs' = Append(frameErrs, r.err.isErr)
           /\ kfIdx' = NextKeyframe(kfIdx, r.err)
    /\ lastResp' = NoResponse
    /\ vlmPc' = "loop"
    /\ UNCHANGED << keyframes, vlmRet, inflight, geminiLog >>
    /\ UNCHANGED << handlerVars, asrVars, cancelled >>

VLMExit_FailOnFrameErrors ==
    /\ vlmPc = "loop"
    /\ kfIdx > Len(keyframes)
    /\ vlmRet' = [Frames |-> result,
                  err |-> IF \E k \in 1..Len(frameErrs) : frameErrs[k]
                          THEN Errorf(<<"frames failed">>) ELSE NoError]
    /\ vlmPc' = "returned"
    /\ UNCHANGED << keyframes, kfIdx, prevDesc, result, inflight, geminiLog,
                    frameErrs, lastResp >>
    /\ UNCHANGED << handlerVars, asrVars, cancelled >>

\* Loop exhausted: return result, nil.
VLMExit ==
    /\ vlmPc = "loop"
    /\ kfIdx > Len(keyframes)
    /\ vlmRet' = [Frames |-> result, err |-> NoError]
    /\ vlmPc' = "returned"
    /\ UNCHANGED << keyframes, kfIdx, prevDesc, result, inflight, geminiLog,
                    frameErrs, lastResp >>
    /\ UNCHANGED << handlerVars, asrVars, cancelled >>

RunVLM == VLMEntry \/ VLMIssue \/ VLMRespond \/ VLMReturn \/ VLMExit

(***************************************************************************)
(* r2.Client                                                               *)
(***************************************************************************)
VideoKey(adID) == <<"ads/">> \o adID \o <<"/video.mp4">>

ResultKey_NoStream(adID, stream) ==
    <<"ads/">> \o adID \o <<"/extraction/results.json">>

\* fmt.Sprintf("ads/%s/extraction/<stream>_results.json", adID)
ResultKey(adID, stream) ==
    <<"ads/">> \o adID \o <<"/extraction/", stream, "_results.json">>

KeyframeMeta(index, ts, key) ==
    [Index |-> index, FrameNumber |-> index * 30, TimestampSec |-> ts,
     EntropyScore |-> 1, R2Key |-> key]

\* The keyframes entropy-frames-selector wrote for the ad, in index order.
StoredKeyframes ==
    [j \in 1..MaxFrames |->
        KeyframeMeta(j - 1, 25 * (j - 1), <<"keyframe ", ToString(j)>>)]

\* What metadata.json can list: the first n of them.
MetadataFiles == {SubSeq(StoredKeyframes, 1, n) : n \in 0..MaxFrames}

ObjectBytes(key) == <<"bytes of ">> \o key

\* DownloadKeyframeImages(metas) when the GetObject of metas[failAt] fails
\* (failAt = 0: none fails): the r2_key -> bytes map, or an error returned at
\* the first failed GetObject; gets lists the GetObject calls that were made.
DownloadKeyframeImages(metas, failAt) ==
    LET made == IF failAt > 0 THEN failAt ELSE Len(metas)
        calls == [j \in 1..made |-> [Key |-> metas[j].R2Key, ok |-> j # failAt]]
    IN  IF failAt > 0 THEN [ok |-> FALSE, images |-> << >>, gets |-> calls]
        ELSE [ok |-> TRUE,
              images |-> [k \in {metas[j].R2Key : j \in 1..Len(metas)}
                            |-> ObjectBytes(k)],
              gets |-> calls]

(***************************************************************************)
(* handler.ExtractHandler                                                  *)
(***************************************************************************)
Streams == {"asr", "vlm"}
Threads == {"main"} \cup Streams

Requests ==
    [method : {"POST", "GET"}, bodyOK : BOOLEAN, AdID : {<< >>, <<"ad1">>}]
Configs ==
    [DeepgramAPIKey : {<< >>, <<"dg-key">>}, GeminiAPIKey : {<< >>, <<"gm-key">>}]

KeyframeInput(index, ts, image) ==
    [FrameIndex |-> index, TimestampSec |-> ts, ImageBytes |-> image]

streamResult(stream, status, count, key, error) ==
    [Stream |-> stream, Status |-> status, ResultCount |-> count,
     R2Key |-> key, Error |-> error]

NoResult(s) == streamResult(s, "none", 0, << >>, << >>)
NoResponseWritten == [status |-> 0, AdID |-> << >>, Streams |-> << >>]
ErrorResponse(status) == [status |-> status, AdID |-> << >>, Streams |-> << >>]

\* The loop of lines 86-94 over keyframeMetas with the downloaded images.
RECURSIVE BuildInputs(_, _)
BuildInputs(metas, images) ==
    IF metas = << >> THEN << >>
    ELSE LET m    == Head(metas)
             rest == BuildInputs(Tail(metas), images)
         IN  IF m.R2Key \in DOMAIN images
             THEN <<KeyframeInput(m.Index, m.TimestampSec, images[m.R2Key])>>
                  \o rest
             ELSE rest

SkippedResult_CredentialFirst(s) ==
    IF s = "asr"
    THEN streamResult("asr", "skipped", 0, << >>,
                      <<"DEEPGRAM_API_KEY not configured">>)
    ELSE streamResult("vlm", "skipped", 0, << >>,
                      IF cfg.GeminiAPIKey = << >>
                      THEN <<"GEMINI_API_KEY not configured">>
                      ELSE <<"no keyframe images available">>)

\* The outcome ServeHTTP records for a stream it does not launch.
SkippedResult(s) ==
    IF s = "asr"
    THEN streamResult("asr", "skipped", 0, << >>,
                      <<"DEEPGRAM_API_KEY not configured">>)
    ELSE streamResult("vlm", "skipped", 0, << >>,
                      IF Len(keyframeInputs) = 0
                      THEN <<"no keyframe images available">>
                      ELSE <<"GEMINI_API_KEY not configured">>)

LaunchASR_Always == TRUE

LaunchASR == cfg.DeepgramAPIKey # << >>
LaunchVLM == cfg.GeminiAPIKey # << >> /\ Len(keyframeInputs) > 0

\* Method check, body decoding and the ad_id check (lines 45-58).
Validate ==
    /\ pc = "start"
    /\ IF req.method # "POST"
       THEN pc' = "done" /\ response' = ErrorResponse(405)
       ELSE IF ~req.bodyOK \/ req.AdID = << >>
       THEN pc' = "done" /\ response' = ErrorResponse(400)
       ELSE pc' = "download_video" /\ UNCHANGED response
    /\ UNCHANGED << req, cfg, cancelled, videoBytes, keyframeMetas, gets,
                    keyframeInputs, mu, results, wg, hdr, spc, sr, puts,
                    asrVars, vlmVars >>

DownloadVideo_IgnoreError ==
    /\ pc = "download_video"
    /\ \E ok \in IF cancelled THEN {FALSE} ELSE BOOLEAN :
         /\ videoBytes' = [state |-> IF ok THEN "ok" ELSE "err",
                           data  |-> IF ok THEN ObjectBytes(VideoKey(req.AdID))
                                     ELSE << >>]
         /\ pc' = "download_meta"
         /\ UNCHANGED response
    /\ UNCHANGED << req, cfg, cancelled, keyframeMetas, gets, keyframeInputs, mu,
                    results, wg, hdr, spc, sr, puts, asrVars, vlmVars >>

\* h.r2.DownloadVideo and its error return (lines 66-70).
DownloadVideo ==
    /\ pc = "download_video"
    /\ \E ok \in IF cancelled THEN {FALSE} ELSE BOOLEAN :
         /\ videoBytes' = [state |-> IF ok THEN "ok" ELSE "err",
                           data  |-> IF ok THEN ObjectBytes(VideoKey(req.AdID))
                                     ELSE << >>]
         /\ IF ok
            THEN pc' = "download_meta" /\ UNCHANGED response
            ELSE pc' = "done" /\ response' = ErrorResponse(500)
    /\ UNCHANGED << req, cfg, cancelled, keyframeMetas, gets, keyframeInputs, mu,
                    results, wg, hdr, spc, sr, puts, asrVars, vlmVars >>

\* h.r2.DownloadKeyframeMetadata (lines 73-77): a failed read, or a file
\* without a keyframes list, leaves keyframeMetas nil.
DownloadKeyframeMetadata ==
    /\ pc = "download_meta"
    /\ \/ keyframeMetas' = [isNil |-> TRUE, list |-> << >>]
       \/ /\ ~cancelled
          /\ \E file \in MetadataFiles :
               keyframeMetas' = [isNil |-> FALSE, list |-> file]
    /\ pc' = "download_images"
    /\ UNCHANGED << req, cfg, cancelled, videoBytes, gets, keyframeInputs, mu,
                    results, wg, hdr, spc, sr, puts, response, asrVars,
                    vlmVars >>

DownloadImages_Fatal ==
    /\ pc = "download_images"
    /\ IF keyframeMetas.isNil
       THEN /\ keyframeInputs' = << >>
            /\ pc' = "gate_asr"
            /\ UNCHANGED << gets, response >>
       ELSE \E failAt \in IF cancelled /\ Len(keyframeMetas.list) > 0
                          THEN 1..Len(keyframeMetas.list)
                          ELSE 0..Len(keyframeMetas.list) :
              LET dl == DownloadKeyframeImages(keyframeMetas.list, failAt)
              IN  /\ gets' = dl.gets
                  /\ IF dl.ok
                     THEN /\ keyframeInputs' =
                                 BuildInputs(keyframeMetas.list, dl.images)
                          /\ pc' = "gate_asr"
                          /\ UNCHANGED response
                     ELSE /\ keyframeInputs' = << >>
                          /\ pc' = "done"
                          /\ response' = ErrorResponse(StatusInternalServerError)
    /\ UNCHANGED << req, cfg, cancelled, videoBytes, keyframeMetas, mu,
                    results, wg, hdr, spc, sr, puts, asrVars, vlmVars >>

\* Lines 80-96: download the images and build keyframeInputs.
DownloadImages ==
    /\ pc = "download_images"
    /\ IF keyframeMetas.isNil
       THEN keyframeInputs' = << >> /\ UNCHANGED gets
       ELSE \E failAt \in IF cancelled /\ Len(keyframeMetas.list) > 0
                          THEN 1..Len(keyframeMetas.list)
                          ELSE 0..Len(keyframeMetas.list) :
              LET dl == DownloadKeyframeImages(keyframeMetas.list, failAt)
              IN  /\ gets' = dl.gets
                  /\ keyframeInputs' =
                      IF dl.ok THEN BuildInputs(keyframeMetas.list, dl.images)
                      ELSE << >>
    /\ pc' = "gate_asr"
    /\ UNCHANGED << req, cfg, cancelled, videoBytes, keyframeMetas, mu,
                    results, wg, hdr, spc, sr, puts, response, asrVars,
                    vlmVars >>

\* Lines 106-115: launch the ASR goroutine, or go on to record it as skipped.
GateASR ==
    /\ pc = "gate_asr"
    /\ IF LaunchASR
       THEN /\ wg' = wg + 1
            /\ spc' = [spc EXCEPT !["asr"] = "run"]
            /\ asrPc' = "entry"
            /\ pc' = "gate_vlm"
       ELSE /\ pc' = "asr_skip"
            /\ UNCHANGED << wg, spc, asrPc >>
    /\ UNCHANGED << req, cfg, cancelled, videoBytes, keyframeMetas, gets,
                    keyframeInputs, mu, results, hdr, sr, puts, response,
                    asrCalls, asrResp, asrRet, vlmVars >>

\* Lines 122-131: launch the VLM goroutine, or go on to record it as skipped.
GateVLM ==
    /\ pc = "gate_vlm"
    /\ IF LaunchVLM
       THEN /\ wg' = wg + 1
            /\ spc' = [spc EXCEPT !["vlm"] = "run"]
            /\ keyframes' = keyframeInputs
            /\ vlmPc' = "entry"
            /\ pc' = "wait"
       ELSE /\ pc' = "vlm_skip"
            /\ UNCHANGED << wg, spc, keyframes, vlmPc >>
    /\ UNCHANGED << req, cfg, cancelled, videoBytes, keyframeMetas, gets,
                    keyframeInputs, mu, results, hdr, sr, puts, response,
                    asrVars, kfIdx, prevDesc, result, vlmRet, inflight,
                    geminiLog, frameErrs, lastResp >>

\* results = append(results, streamResult{...}) in ServeHTTP (lines 116, 136),
\* first half: append reads the slice header.  No lock is taken.
MainAppendRead ==
    /\ pc \in {"asr_skip", "vlm_skip"}
    /\ hdr' = [hdr EXCEPT !["main"] = results]
    /\ pc' = IF pc = "asr_skip" THEN "asr_skip_write" ELSE "vlm_skip_write"
    /\ UNCHANGED << req, cfg, cancelled, videoBytes, keyframeMetas, gets,
                    keyframeInputs, mu, results, wg, spc, sr, puts,
                    response, asrVars, vlmVars >>

\* Second half: the grown slice is assigned to results.
MainAppendWrite ==
    /\ pc \in {"asr_skip_write", "vlm_skip_write"}
    /\ results' = Append(hdr["main"],
                         SkippedResult(IF pc = "asr_skip_write" THEN "asr"
                                       ELSE "vlm"))
    /\ pc' = IF pc = "asr_skip_write" THEN "gate_vlm" ELSE "wait"
    /\ UNCHANGED << req, cfg, cancelled, videoBytes, keyframeMetas, gets,
                    keyframeInputs, mu, wg, hdr, spc, sr, puts, response,
                    asrVars, vlmVars >>

WaitReturns_OneLeft(n) == n <= 1

\* wg.Wait() returns when the counter is zero.
WaitReturns(n) == n = 0

Wait ==
    /\ pc = "wait"
    /\ WaitReturns(wg)
    /\ pc' = "respond"
    /\ UNCHANGED << req, cfg, cancelled, videoBytes, keyframeMetas, gets,
                    keyframeInputs, mu, results, wg, hdr, spc, sr, puts,
                    response, asrVars, vlmVars >>

\* Lines 143-152: the aggregated response is encoded and written.
Respond ==
    /\ pc = "respond"
    /\ response' = [status |-> StatusOK, AdID |-> req.AdID, Streams |-> results]
    /\ pc' = "done"
    /\ UNCHANGED << req, cfg, cancelled, videoBytes, keyframeMetas, gets,
                    keyframeInputs, mu, results, wg, hdr, spc, sr, puts,
                    asrVars, vlmVars >>

ASRAfterRun_UploadAnyway ==
    /\ spc["asr"] = "run"
    /\ asrPc = "returned"
    /\ spc' = [spc EXCEPT !["asr"] = "upload"]
    /\ UNCHANGED << req, cfg, cancelled, pc, videoBytes, keyframeMetas, gets,
                    keyframeInputs, mu, results, wg, hdr, sr, puts, response,
                    asrVars, vlmVars >>

ASRAfterRun_LockFirst ==
    /\ spc["asr"] = "run"
    /\ asrPc = "returned"
    /\ mu = "free"
    /\ IF asrRet.err.isErr
       THEN /\ sr' = [sr EXCEPT !["asr"] =
                         streamResult("asr", "error", 0, << >>, asrRet.err.msg)]
            /\ spc' = [spc EXCEPT !["asr"] = "lock"]
            /\ UNCHANGED mu
       ELSE /\ spc' = [spc EXCEPT !["asr"] = "upload"]
            /\ mu' = "asr"
            /\ UNCHANGED sr
    /\ UNCHANGED << req, cfg, cancelled, pc, videoBytes, keyframeMetas, gets,
                    keyframeInputs, results, wg, hdr, puts, response,
                    asrVars, vlmVars >>

\* runASR after streams.RunASR returned (lines 157-163).
ASRAfterRun ==
    /\ spc["asr"] = "run"
    /\ asrPc = "returned"
    /\ IF asrRet.err.isErr
       THEN /\ sr' = [sr EXCEPT !["asr"] =
                         streamResult("asr", "error", 0, << >>, asrRet.err.msg)]
            /\ spc' = [spc EXCEPT !["asr"] = "lock"]
       ELSE /\ spc' = [spc EXCEPT !["asr"] = "upload"]
            /\ UNCHANGED sr
    /\ UNCHANGED << req, cfg, cancelled, pc, videoBytes, keyframeMetas, gets,
                    keyframeInputs, mu, results, wg, hdr, puts, response,
                    asrVars, vlmVars >>

VLMAfterRun_SiblingError ==
    /\ spc["vlm"] = "run"
    /\ vlmPc = "returned"
    /\ IF vlmRet.err.isErr \/ sr["asr"].Status = "error"
       THEN /\ sr' = [sr EXCEPT !["vlm"] =
                         streamResult("vlm", "error", 0, << >>, sr["asr"].Error)]
            /\ spc' = [spc EXCEPT !["vlm"] = "lock"]
       ELSE /\ spc' = [spc EXCEPT !["vlm"] = "upload"]
            /\ UNCHANGED sr
    /\ UNCHANGED << req, cfg, cancelled, pc, videoBytes, keyframeMetas, gets,
                    keyframeInputs, mu, results, wg, hdr, puts, response,
                    asrVars, vlmVars >>

\* runVLM after streams.RunVLM returned (lines 178-184).
VLMAfterRun ==
    /\ spc["vlm"] = "run"
    /\ vlmPc = "returned"
    /\ IF vlmRet.err.isErr
       THEN /\ sr' = [sr EXCEPT !["vlm"] =
                         streamResult("vlm", "error", 0, << >>, vlmRet.err.msg)]
            /\ spc' = [spc EXCEPT !["vlm"] = "lock"]
       ELSE /\ spc' = [spc EXCEPT !["vlm"] = "upload"]
            /\ UNCHANGED sr
    /\ UNCHANGED << req, cfg, cancelled, pc, videoBytes, keyframeMetas, gets,
                    keyframeInputs, mu, results, wg, hdr, puts, response,
                    asrVars, vlmVars >>

\* The value a stream hands to UploadJSON and the length it reports.
StreamOutput(s) == IF s = "asr" THEN asrRet.Segments ELSE vlmRet.Frames

UploadReturn_KeyOnError(s) ==
    /\ spc[s] = "upload"
    /\ LET r2Key == ResultKey(req.AdID, s)
       IN  \E ok \in IF cancelled THEN {FALSE} ELSE BOOLEAN :
             /\ puts' = Append(puts, [Key |-> r2Key, Body |-> StreamOutput(s),
                                      ok |-> ok])
             /\ IF ok
                THEN sr' = [sr EXCEPT ![s] =
                               streamResult(s, "success", Len(StreamOutput(s)),
                                            r2Key, << >>)]
                ELSE sr' = [sr EXCEPT ![s] =
                               streamResult(s, "error", 0, r2Key,
                                            <<"upload ">> \o r2Key \o <<": ">>)]
    /\ spc' = [spc EXCEPT ![s] = "lock"]
    /\ UNCHANGED << req, cfg, cancelled, pc, videoBytes, keyframeMetas, gets,
                    keyframeInputs, mu, results, wg, hdr, response, asrVars,
                    vlmVars >>

\* h.r2.UploadJSON returns in runASR / runVLM (lines 163-173, 184-194).
UploadReturn(s) ==
    /\ spc[s] = "upload"
    /\ LET r2Key == ResultKey(req.AdID, s)
       IN  \E ok \in IF cancelled THEN {FALSE} ELSE BOOLEAN :
             /\ puts' = Append(puts, [Key |-> r2Key, Body |-> StreamOutput(s),
                                      ok |-> ok])
             /\ IF ok
                THEN sr' = [sr EXCEPT ![s] =
                               streamResult(s, "success", Len(StreamOutput(s)),
                                            r2Key, << >>)]
                ELSE sr' = [sr EXCEPT ![s] =
                               streamResult(s, "error", 0, << >>,
                                            <<"upload ">> \o r2Key \o <<": ">>)]
    /\ spc' = [spc EXCEPT ![s] = "lock"]
    /\ UNCHANGED << req, cfg, cancelled, pc, videoBytes, keyframeMetas, gets,
                    keyframeInputs, mu, results, wg, hdr, response, asrVars,
                    vlmVars >>

\* mu.Lock() in a stream goroutine.
Lock(s) ==
    /\ spc[s] = "lock"
    /\ mu = "free"
    /\ mu' = s
    /\ spc' = [spc EXCEPT ![s] = "append_read"]
    /\ UNCHANGED << req, cfg, cancelled, pc, videoBytes, keyframeMetas, gets,
                    keyframeInputs, results, wg, hdr, sr, puts, response,
                    asrVars, vlmVars >>

\* results = append(results, sr) in a goroutine: append reads the header.
AppendRead(s) ==
    /\ spc[s] = "append_read"
    /\ hdr' = [hdr EXCEPT ![s] = results]
    /\ spc' = [spc EXCEPT ![s] = "append_write"]
    /\ UNCHANGED << req, cfg, cancelled, pc, videoBytes, keyframeMetas, gets,
                    keyframeInputs, mu, results, wg, sr, puts, response,
                    asrVars, vlmVars >>

\* ... and the grown slice is assigned to results.
AppendWrite(s) ==
    /\ spc[s] = "append_write"
    /\ results' = Append(hdr[s], sr[s])
    /\ spc' = [spc EXCEPT ![s] = "unlock"]
    /\ UNCHANGED << req, cfg, cancelled, pc, videoBytes, keyframeMetas, gets,
                    keyframeInputs, mu, wg, hdr, sr, puts, response,
                    asrVars, vlmVars >>

\* mu.Unlock()
Unlock(s) ==
    /\ spc[s] = "unlock"
    /\ mu' = "free"
    /\ spc' = [spc EXCEPT ![s] = "exit"]
    /\ UNCHANGED << req, cfg, cancelled, pc, videoBytes, keyframeMetas, gets,
                    keyframeInputs, results, wg, hdr, sr, puts, response,
                    asrVars, vlmVars >>

WgDone_Missing(n) == n

\* the deferred wg.Done()
WgDone(n) == n - 1

Done(s) ==
    /\ spc[s] = "exit"
    /\ wg' = WgDone(wg)
    /\ spc' = [spc EXCEPT ![s] = "done"]
    /\ UNCHANGED << req, cfg, cancelled, pc, videoBytes, keyframeMetas, gets,
                    keyframeInputs, mu, results, hdr, sr, puts, response,
                    asrVars, vlmVars >>

(***************************************************************************)
(* The request context                                                     *)
(***************************************************************************)
Running ==
    IF pc = "detached"
    THEN vlmPc \in {"entry", "loop", "call", "responded"} \/ asrPc \in {"entry", "call"}
    ELSE pc # "done"

\* The request context expires (5 minute timeout) or is cancelled.
Cancel ==
    /\ ~cancelled
    /\ Running
    /\ cancelled' = TRUE
    /\ UNCHANGED << handlerVars, asrVars, vlmVars >>

(***************************************************************************)
(* Specifications                                                          *)
(***************************************************************************)
InitCommon ==
    /\ cancelled = FALSE
    /\ videoBytes = [state |-> "unset", data |-> << >>]
    /\ keyframeMetas = [isNil |-> TRUE, list |-> << >>]
    /\ gets = << >>
    /\ keyframeInputs = << >>
    /\ mu = "free"
    /\ results = << >>
    /\ wg = 0
    /\ hdr = [t \in Threads |-> << >>]
    /\ spc = [s \in Streams |-> "idle"]
    /\ sr = [s \in Streams |-> NoResult(s)]
    /\ asrCalls = 0
    /\ asrResp = NoDeepgramResponse
    /\ asrRet = [Segments |-> << >>, err |-> NoError]
    /\ kfIdx = 0
    /\ prevDesc = << >>
    /\ result = << >>
    /\ vlmRet = [Frames |-> << >>, err |-> NoError]
    /\ inflight = 0
    /\ geminiLog = << >>
    /\ frameErrs = << >>
    /\ lastResp = NoResponse
    /\ puts = << >>
    /\ response = NoResponseWritten

\* One POST /extract (or a request the handler rejects) arrives.
Init ==
    /\ InitCommon
    /\ req \in Requests
    /\ cfg \in Configs
    /\ pc = "start"
    /\ asrPc = "idle"
    /\ vlmPc = "idle"
    /\ keyframes = << >>

Main ==
    \/ Validate
    \/ DownloadVideo
    \/ DownloadKeyframeMetadata
    \/ DownloadImages
    \/ GateASR
    \/ GateVLM
    \/ MainAppendRead
    \/ MainAppendWrite
    \/ Wait
    \/ Respond

Goroutine(s) ==
    \/ UploadReturn(s)
    \/ Lock(s)
    \/ AppendRead(s)
    \/ AppendWrite(s)
    \/ Unlock(s)
    \/ Done(s)

ASRThread == RunASR \/ ASRAfterRun \/ Goroutine("asr")
VLMThread == RunVLM \/ VLMAfterRun \/ Goroutine("vlm")

Next == Main \/ ASRThread \/ VLMThread \/ Cancel

Spec == Init /\ [][Next]_vars

\* Every thread that can take a step eventually takes one: the Go scheduler
\* runs every runnable goroutine, and every provider and storage call returns.
FairSpec ==
    Spec /\ WF_vars(Main) /\ WF_vars(ASRThread) /\ WF_vars(VLMThread)

\* streams.RunVLM called on its own, as the package's tests call it.
KeyframeInputSet ==
    { KeyframeInput(0, 0, <<"img1">>), KeyframeInput(5, 25, <<"img2">>),
      KeyframeInput(3, 15, <<"img3">>) }

VLMInit ==
    /\ InitCommon
    /\ req = [method |-> "POST", bodyOK |-> TRUE, AdID |-> <<"ad1">>]
    /\ cfg = [DeepgramAPIKey |-> << >>, GeminiAPIKey |-> <<"gm-key">>]
    /\ pc = "detached"
    /\ asrPc = "idle"
    /\ vlmPc = "entry"
    /\ keyframes \in SeqsUpTo(KeyframeInputSet, MaxFrames)

VLMNext == RunVLM \/ Cancel

VLMSpec == VLMInit /\ [][VLMNext]_vars

\* streams.RunASR called on its own, as the package's tests call it.
ASRInit ==
    /\ InitCommon
    /\ req = [method |-> "POST", bodyOK |-> TRUE, AdID |-> <<"ad1">>]
    /\ cfg = [DeepgramAPIKey |-> <<"dg-key">>, GeminiAPIKey |-> << >>]
    /\ pc = "detached"
    /\ asrPc = "entry"
    /\ vlmPc = "idle"
    /\ keyframes = << >>

ASRNext == RunASR \/ Cancel

ASRSpec == ASRInit /\ [][ASRNext]_vars

(***************************************************************************)
(* Properties of the orchestrator                                          *)
(***************************************************************************)
OutcomesFor(s, outcomes) ==
    {i \in 1..Len(outcomes) : outcomes[i].Stream = s}

InResponse(outcome) ==
    \E i \in 1..Len(response.Streams) : response.Streams[i] = outcome

\* C1: whenever the video bytes were obtained, the response that is returned
\* holds exactly one outcome for the transcript stream and exactly one for the
\* visual stream, two in total.
C1_OneOutcomePerStream ==
    (pc = "done" /\ videoBytes.state = "ok") =>
        /\ Len(response.Streams) = 2
        /\ \A s \in Streams :
             Cardinality(OutcomesFor(s, response.Streams)) = 1

\* A thread is inside an append from the read of the slice header to the
\* assignment of the grown slice.
Appending(t) ==
    IF t = "main" THEN pc \in {"asr_skip_write", "vlm_skip_write"}
    ELSE spc[t] = "append_write"

\* A launched goroutine that has not yet finished its append.
WillAppend(s) ==
    spc[s] \in {"run", "upload", "lock", "append_read", "append_write"}

\* C2: appends to the shared outcome collection are mutually exclusive: no two
\* appends overlap, and ServeHTTP's own (lock-free) append never runs while a
\* launched stream that will append is still running.
C2_AppendsExclusive ==
    /\ \A t1, t2 \in Threads :
         (t1 # t2) => ~(Appending(t1) /\ Appending(t2))
    /\ ~(Appending("main") /\ \E s \in Streams : WillAppend(s))

RunFailed(s) == IF s = "asr" THEN asrRet.err.isErr ELSE vlmRet.err.isErr

\* The stream's own PutObject was accepted / was refused.
Stored(s) ==
    \E i \in 1..Len(puts) : puts[i].Key = ResultKey(req.AdID, s) /\ puts[i].ok
WriteFailed(s) ==
    \E i \in 1..Len(puts) : puts[i].Key = ResultKey(req.AdID, s) /\ ~puts[i].ok

\* C3: a stream that ends in error neither blocks nor fails its sibling: the
\* launched sibling's outcome follows from its own provider run and its own
\* storage write alone, and when the request is done the sibling has run to
\* completion and its outcome is in the returned response.
C3_FailureIsolation ==
    \A a, b \in Streams :
        (a # b /\ sr[a].Status = "error" /\ spc[b] # "idle") =>
            /\ (sr[b].Status = "success") =>
                 /\ ~RunFailed(b)
                 /\ Stored(b)
                 /\ sr[b].ResultCount = Len(StreamOutput(b))
            /\ (sr[b].Status = "error") => (RunFailed(b) \/ WriteFailed(b))
            /\ (pc = "done") =>
                 /\ spc[b] = "done"
                 /\ sr[b].Status \in {"success", "error"}
                 /\ response.status = StatusOK
                 /\ InResponse(sr[b])

C3_Witness ==
    /\ pc = "done"
    /\ sr["asr"].Status = "error"
    /\ sr["vlm"].Status = "success"
    /\ InResponse(sr["vlm"])
    /\ InResponse(sr["asr"])

\* C4: when the video bytes cannot be fetched the request fails before either
\* stream is launched: no Deepgram call, no Gemini call, no storage write, and
\* the response is an error that carries no stream outcomes.
C4_VideoFailureAborts ==
    (videoBytes.state = "err") =>
        /\ pc = "done"
        /\ \A s \in Streams : spc[s] = "idle"
        /\ asrCalls = 0
        /\ geminiLog = << >>
        /\ puts = << >>
        /\ results = << >>
        /\ response.status = StatusInternalServerError
        /\ response.Streams = << >>

C4_Witness ==
    /\ videoBytes.state = "err"
    /\ pc = "done"
    /\ cfg.DeepgramAPIKey # << >>
    /\ cfg.GeminiAPIKey # << >>
    /\ ~cancelled

\* C5: under fair scheduling every request reaches pc = "done" with a response
\* written, and a response built with the Deepgram key unset, the Gemini key
\* set and keyframes present holds exactly one skipped asr outcome and one
\* vlm outcome that is success or error.
C5_NoHang ==
    /\ <>(pc = "done" /\ response.status # 0)
    /\ []((pc = "done" /\ videoBytes.state = "ok" /\ ~LaunchASR /\ LaunchVLM) =>
            /\ Len(response.Streams) = 2
            /\ \E i, j \in 1..2 :
                 /\ response.Streams[i].Stream = "asr"
                 /\ response.Streams[i].Status = "skipped"
                 /\ response.Streams[j].Stream = "vlm"
                 /\ response.Streams[j].Status \in {"success", "error"})

C5_Witness ==
    /\ pc = "done"
    /\ response.status = StatusOK
    /\ ~LaunchASR
    /\ LaunchVLM
    /\ spc["vlm"] = "done"

(***************************************************************************)
(* Properties of the visual stream                                         *)
(***************************************************************************)
IsErrorMarker(d) ==
    /\ Len(d) >= 3
    /\ d[1] = "[Error: "
    /\ d[Len(d)] = "]"

\* The latest keyframe before k whose callGemini returned no error (0: none).
LastSuccess(k) ==
    LET ok == {j \in 1..(k - 1) : ~frameErrs[j]}
    IN  IF ok = {} THEN 0 ELSE CHOOSE j \in ok : \A i \in ok : i <= j

ExpectedContext(k) ==
    IF LastSuccess(k) = 0 THEN FirstFrameContext
    ELSE result[LastSuccess(k)].Description

C8_OneFramePerKeyframe ==
    /\ Len(result) <= Len(keyframes)
    /\ (vlmPc = "returned") =>
         /\ ~vlmRet.err.isErr
         /\ Len(vlmRet.Frames) = Len(keyframes)
         /\ \A k \in 1..Len(keyframes) :
              /\ vlmRet.Frames[k].FrameIndex = keyframes[k].FrameIndex
              /\ vlmRet.Frames[k].TimestampSec = keyframes[k].TimestampSec

C8_Witness ==
    /\ vlmPc = "returned"
    /\ Len(keyframes) = 2
    /\ keyframes[1].FrameIndex # keyframes[2].FrameIndex
    /\ frameErrs = <<TRUE, FALSE>>
    /\ Len(vlmRet.Frames) = 2

\* C9: keyframes are processed one at a time with one request each and no
\* retry: at most one Gemini request is in flight, request k+1 is sent only
\* after call k returned, request k carries keyframe k's image, and the run ends
\* with as many requests as keyframes.
C9_SequentialNoRetry ==
    /\ inflight \in {0, 1}
    /\ Len(geminiLog) <= Len(keyframes)
    /\ Len(geminiLog) = Len(result) + (IF vlmPc \in {"call", "responded"} THEN 1 ELSE 0)
    /\ (inflight = 1) <=> (vlmPc = "call")
    /\ \A k \in 1..Len(geminiLog) :
         k <= Len(keyframes) => geminiLog[k].image = keyframes[k].ImageBytes
    /\ (vlmPc = "returned") => Len(geminiLog) = Len(keyframes)

C9_Witness ==
    /\ vlmPc = "call"
    /\ inflight = 1
    /\ Len(geminiLog) = 2
    /\ frameErrs = <<TRUE>>

\* The text the provider generated in an exchange ("" when there is none).
GeneratedText(resp) ==
    IF Len(resp.candidates) = 0 \/ Len(resp.candidates[1]) = 0 THEN << >>
    ELSE resp.candidates[1][1]

\* The failure cases the claim lists.
ClaimedFailure(resp) ==
    \/ ~resp.doOK \/ ~resp.readOK            \* transport error
    \/ resp.status # StatusOK                \* non-success status
    \/ resp.hasError                         \* structured error in the body
    \/ ~resp.wellFormed                      \* malformed body
    \/ Len(resp.candidates) = 0              \* no candidates
    \/ TrimSpace(GeneratedText(resp)) = << >>   \* empty generated content

\* C10: a call counts as failed (error marker, carried context unchanged) on a
\* transport error, a non-success status, a structured error, a malformed body,
\* no candidates and empty generated content; otherwise the description is the
\* generated text trimmed of surrounding whitespace.
C10_FailureCases ==
    [][(vlmPc = "responded" /\ vlmPc' = "loop") =>
          LET d == result'[Len(result')].Description
          IN  IF ClaimedFailure(lastResp)
              THEN IsErrorMarker(d) /\ prevDesc' = prevDesc
              ELSE d = TrimSpace(GeneratedText(lastResp))]_vars

(***************************************************************************)
(* Properties of the stream outcomes and of the launch decisions           *)
(***************************************************************************)
\* The PutObject calls made under the key that belongs to the ad and stream s.
PutsOf(s) ==
    {i \in 1..Len(puts) :
        puts[i].Key =
            <<"ads/">> \o req.AdID \o <<"/extraction/", s, "_results.json">>}

\* C11: the outcome a launched stream computes is success exactly when its
\* provider run returned no error and its storage write was accepted, and then
\* it carries the length of the stored result and the key ads/<ad_id>/
\* extraction/<stream>_results.json; otherwise it is error with a message, and
\* then the provider run or the write failed.
C11_StreamOutcome ==
    \A s \in Streams :
        /\ (spc[s] \in {"lock", "append_read", "append_write", "unlock",
                        "exit", "done"})
              => sr[s].Status \in {"success", "error"}
        /\ (sr[s].Status # "none") =>
              /\ sr[s].Stream = s
              /\ (sr[s].Status = "success") <=>
                     (~RunFailed(s) /\ \E i \in PutsOf(s) : puts[i].ok)
              /\ (sr[s].Status = "success") =>
                     \E i \in PutsOf(s) :
                         /\ puts[i].ok
                         /\ puts[i].Body = StreamOutput(s)
                         /\ sr[s].ResultCount = Len(puts[i].Body)
                         /\ sr[s].R2Key = puts[i].Key
                         /\ sr[s].Error = << >>
              /\ (sr[s].Status # "success") =>
                     /\ sr[s].Status = "error"
                     /\ sr[s].Error # << >>
                     /\ RunFailed(s) \/ \E i \in PutsOf(s) : ~puts[i].ok

C11_Witness ==
    /\ sr["asr"].Status = "success"
    /\ sr["asr"].ResultCount = 2
    /\ sr["vlm"].Status = "error"
    /\ ~RunFailed("vlm")

\* ServeHTTP is past the transcript stream's launch decision (lines 106-119).
PastASRGate ==
    \/ pc \in {"gate_vlm", "vlm_skip", "vlm_skip_write", "wait", "respond"}
    \/ pc = "done" /\ response.status = StatusOK

\* C12: the transcript stream is launched exactly when the Deepgram key is
\* configured; when it is not, the skipped outcome with the reason
\* "DEEPGRAM_API_KEY not configured" is in results before the visual stream is
\* decided and before the wait, Deepgram receives no request, nothing is
\* written under the transcript key, and the outcome is in the response.
C12_TranscriptGate ==
    LET configured == cfg.DeepgramAPIKey # << >>
        skipped    == [Stream |-> "asr", Status |-> "skipped", ResultCount |-> 0,
                       R2Key |-> << >>,
                       Error |-> <<"DEEPGRAM_API_KEY not configured">>]
    IN  /\ (spc["asr"] # "idle") => configured
        /\ PastASRGate => ((spc["asr"] # "idle") <=> configured)
        /\ ~configured =>
             /\ asrPc = "idle"
             /\ asrCalls = 0
             /\ PutsOf("asr") = {}
             /\ sr["asr"].Status = "none"
        /\ (~configured /\ PastASRGate) =>
             /\ OutcomesFor("asr", results) = {1}
             /\ results[1] = skipped
        /\ (~configured /\ pc = "gate_vlm") =>
             /\ wg = 0
             /\ spc["vlm"] = "idle"
        /\ (~configured /\ pc = "done" /\ response.status = StatusOK) =>
             InResponse(skipped)

C12_Witness ==
    /\ cfg.DeepgramAPIKey = << >>
    /\ pc = "done"
    /\ sr["vlm"].Status = "success"
    /\ response.Streams[1].Stream = "asr"
    /\ response.Streams[1].Status = "skipped"

\* ServeHTTP is past the visual stream's launch decision (lines 122-139).
PastVLMGate ==
    \/ pc \in {"vlm_skip", "vlm_skip_write", "wait", "respond"}
    \/ pc = "done" /\ response.status = StatusOK

\* Some listed keyframe image was fetched from the object store.
ImageResolved == \E i \in 1..Len(gets) : gets[i].ok

\* C13: the visual stream is launched exactly when the Gemini key is
\* configured and at least one listed keyframe image was fetched, each image's
\* GetObject succeeding or failing on its own; when it is not launched Gemini
\* receives no request and the stream computes no outcome of its own.
C13_VisualGate ==
    LET configured == cfg.GeminiAPIKey # << >>
    IN  /\ (spc["vlm"] # "idle") => (configured /\ ImageResolved)
        /\ PastVLMGate => ((spc["vlm"] # "idle") <=> (configured /\ ImageResolved))
        /\ (spc["vlm"] = "idle") =>
             /\ geminiLog = << >>
             /\ sr["vlm"].Status = "none"

\* The skipped outcomes of the visual stream that ServeHTTP recorded.
SkippedVLM ==
    {i \in 1..Len(results) :
        results[i].Stream = "vlm" /\ results[i].Status = "skipped"}

\* C14 as claimed: a skipped visual outcome reports the missing credential
\* whenever the Gemini key is unset, and the missing keyframe images when the
\* key is set and no keyframe image was fetched.
C14_ReasonByCredentialFirst ==
    \A i \in SkippedVLM :
        /\ (cfg.GeminiAPIKey = << >>) =>
               results[i].Error = <<"GEMINI_API_KEY not configured">>
        /\ (cfg.GeminiAPIKey # << >> /\ ~ImageResolved) =>
               results[i].Error = <<"no keyframe images available">>

\* C14: a skipped visual outcome reports the missing keyframe images whenever
\* ServeHTTP built no keyframe input, also when the Gemini key is unset; it
\* reports the missing credential only when the key is unset and keyframe
\* inputs are present.
C14_SkipReason ==
    \A i \in SkippedVLM :
        /\ (Len(keyframeInputs) = 0) =>
               results[i].Error = <<"no keyframe images available">>
        /\ (Len(keyframeInputs) > 0) =>
               /\ cfg.GeminiAPIKey = << >>
               /\ results[i].Error = <<"GEMINI_API_KEY not configured">>

C14_Witness ==
    /\ pc = "done"
    /\ cfg.GeminiAPIKey = << >>
    /\ Len(keyframeInputs) = 0
    /\ \E i \in SkippedVLM :
           results[i].Error = <<"no keyframe images available">>

\* The video was fetched and ServeHTTP is past the keyframe downloads (72-96).
PastKeyframes ==
    videoBytes.state = "ok" /\ pc \notin {"download_meta", "download_images"}

\* metadata.json was absent or unreadable, listed no keyframe, or an image
\* could not be fetched.
KeyframesMissing ==
    \/ keyframeMetas.isNil
    \/ keyframeMetas.list = << >>
    \/ \E i \in 1..Len(gets) : ~gets[i].ok

\* C15: when the video was fetched and the keyframe metadata or images are
\* missing, no error response is written and the request goes on to its 200
\* response; the visual stream is never launched and Gemini receives no
\* request; the transcript stream is launched exactly when the Deepgram key is
\* configured and, when launched, has computed its outcome by the time the
\* response is written.
C15_MissingKeyframesNotFatal ==
    /\ [](((PastKeyframes /\ KeyframesMissing) =>
            /\ keyframeInputs = << >>
            /\ spc["vlm"] = "idle"
            /\ geminiLog = << >>
            /\ response.status \in {0, StatusOK}
            /\ PastASRGate =>
                 ((spc["asr"] # "idle") <=> (cfg.DeepgramAPIKey # << >>))
            /\ (pc = "done") =>
                 /\ response.status = StatusOK
                 /\ (cfg.DeepgramAPIKey # << >>) =>
                        /\ spc["asr"] = "done"
                        /\ sr["asr"].Status \in {"success", "error"}
                 /\ (cfg.DeepgramAPIKey = << >>) =>
                        /\ Len(response.Streams) = 2
                        /\ response.Streams[1].Status = "skipped"
                        /\ response.Streams[2].Stream = "vlm"
                        /\ response.Streams[2].Status = "skipped"))
    /\ (PastKeyframes /\ KeyframesMissing)
          ~> (pc = "done" /\ response.status = StatusOK)

C15_Witness ==
    /\ pc = "done"
    /\ response.status = StatusOK
    /\ ~keyframeMetas.isNil
    /\ \E i \in 1..Len(gets) : ~gets[i].ok
    /\ sr["asr"].Status = "success"

\* The stream's goroutine has not yet computed its outcome.
InFlight(s) == spc[s] \in {"run", "upload"}

\* C16: once the request context is done, every outcome a stream still
\* computes is error with a message, a provider call that is answered after
\* that point returns an error, and ServeHTTP still writes its 200 response,
\* which it does only after every launched stream has finished.
C16_TimeoutEndsStreams ==
    /\ [][cancelled =>
            /\ \A s \in Streams :
                 (sr[s].Status = "none" /\ sr'[s].Status # "none") =>
                     /\ sr'[s].Status = "error"
                     /\ sr'[s].Error # << >>
            /\ (asrPc = "call" /\ asrPc' = "responded") =>
                 RunASRResult(asrResp').err.isErr
            /\ (vlmPc = "call" /\ vlmPc' = "responded") =>
                 callGemini(lastResp').err.isErr]_vars
    /\ [](pc = "done" => \A s \in Streams : spc[s] \in {"idle", "done"})
    /\ (cancelled /\ \E s \in Streams : InFlight(s))
          ~> (pc = "done" /\ response.status = StatusOK)

C16_Witness ==
    /\ cancelled
    /\ asrPc = "call"
    /\ vlmPc = "call"
    /\ InFlight("asr")
    /\ InFlight("vlm")

(***************************************************************************)
(* Properties of the transcript stream                                     *)
(***************************************************************************)
\* RunASR returned for an exchange that was answered 200 with a decodable body.
Decoded ==
    /\ asrPc = "returned"
    /\ asrResp.doOK
    /\ asrResp.status = 200
    /\ asrResp.wellFormed

Blank(x) == \A k \in 1..Len(x) : x[k] = " "

\* t is x without its leading and trailing spaces.
IsTrimOf(t, x) ==
    /\ ~Blank(t)
    /\ t[1] # " "
    /\ t[Len(t)] # " "
    /\ \E i, j \in 0..Len(x) :
         /\ i + Len(t) + j = Len(x)
         /\ \A k \in 1..Len(t) : t[k] = x[i + k]
         /\ \A k \in 1..i : x[k] = " "
         /\ \A k \in (Len(x) - j + 1)..Len(x) : x[k] = " "

\* Positions of the utterances with a non-blank transcript, and the k-th one.
NonBlankUtterances ==
    {i \in 1..Len(asrResp.utterances) : ~Blank(asrResp.utterances[i].Transcript)}
KthNonBlank(k) ==
    CHOOSE i \in NonBlankUtterances :
        Cardinality({j \in NonBlankUtterances : j <= i}) = k

\* The word-level entries RunASR looks at: those of the first alternative of
\* the first channel.
WordEntries ==
    IF Len(asrResp.channels) > 0 /\ Len(asrResp.channels[1]) > 0
    THEN asrResp.channels[1][1]
    ELSE << >>

\* C17: when a decoded response has a non-blank utterance, or no word entries
\* to fall back on, RunASR returns no error and its segments are the non-blank
\* utterances in provider order, one segment each, with the utterance's start
\* and end and its transcript without surrounding spaces; blank utterances
\* leave no segment.
C17_OneSegmentPerUtterance ==
    (Decoded /\ (NonBlankUtterances # {} \/ WordEntries = << >>)) =>
        /\ ~asrRet.err.isErr
        /\ Len(asrRet.Segments) = Cardinality(NonBlankUtterances)
        /\ \A k \in 1..Len(asrRet.Segments) :
             LET u == asrResp.utterances[KthNonBlank(k)]
                 g == asrRet.Segments[k]
             IN  /\ g.Start = u.Start
                 /\ g.End = u.End
                 /\ IsTrimOf(g.Text, u.Transcript)

C17_Witness ==
    /\ Decoded
    /\ asrResp.utterances = <<Utt(30, 50, <<" ">>), Utt(0, 25, <<"a", " ">>)>>
    /\ asrRet.Segments = <<ASRSegment(0, 25, <<"a">>)>>

\* C18: for a decoded response RunASR returns no error, and its segments are:
\* with a non-blank utterance, what the same response without any word
\* entries gives; with every utterance absent or blank and word entries
\* present, the chunking of those words at 3.0 seconds; with neither, the
\* empty sequence.
C18_FallbackWhenNoSegments ==
    Decoded =>
        /\ ~asrRet.err.isErr
        /\ asrRet.Segments =
             IF NonBlankUtterances # {}
             THEN RunASRResult([asrResp EXCEPT !.channels = << >>]).Segments
             ELSE IF WordEntries # << >>
             THEN groupWordsIntoChunks(WordEntries, 30)
             ELSE << >>
        /\ (NonBlankUtterances # {}) =>
             Len(asrRet.Segments) = Cardinality(NonBlankUtterances)

C18_Witness ==
    /\ Decoded
    /\ Len(asrResp.utterances) = 1
    /\ NonBlankUtterances = {}
    /\ Len(WordEntries) = 3
    /\ Len(asrRet.Segments) = 2

\* RunASR took the fallback: no non-blank utterance, word entries present.
Fallback == Decoded /\ NonBlankUtterances = {} /\ WordEntries # << >>

\* First[i]: position of the first word of the chunk that word i belongs to,
\* when a chunk is closed by the word that brings its span to 3.0 s or more.
First ==
    LET ws == WordEntries
        f[i \in 1..Len(ws)] ==
            IF i = 1 THEN 1
            ELSE IF ws[i - 1].End - ws[f[i - 1]].Start >= 30 THEN i
            ELSE f[i - 1]
    IN  f

\* Positions of the closing words, and the k-th of them.
Closing ==
    {i \in 1..Len(WordEntries) :
        WordEntries[i].End - WordEntries[First[i]].Start >= 30}
KthClosing(k) ==
    CHOOSE i \in Closing : Cardinality({j \in Closing : j <= i}) = k

\* The tokens of words a..b joined by single spaces.
JoinedWords(a, b) ==
    LET ws == WordEntries
        t[i \in a..b] ==
            IF i = a THEN ws[a].Word ELSE t[i - 1] \o <<" ">> \o ws[i].Word
    IN  t[b]

\* C19: in the fallback, the k-th segment is the chunk closed by the k-th word
\* that brings (word.end - chunk.start) to 3.0 s or more, the test being made
\* after every word, the first of a chunk included: it starts at its first
\* word's start, ends at the closing word's end, its text is its words joined
\* by single spaces, and the word after the closing word starts the next chunk.
\* Beyond these there is at most one segment, present only when the last word
\* closes no chunk.
C19_ChunkClosing ==
    Fallback =>
        LET ws   == WordEntries
            segs == asrRet.Segments
            m    == Cardinality(Closing)
        IN  /\ Len(segs) = m + (IF Len(ws) \in Closing THEN 0 ELSE 1)
            /\ \A k \in 1..m :
                 LET e == KthClosing(k)
                 IN  /\ segs[k].Start = ws[First[e]].Start
                     /\ segs[k].End = ws[e].End
                     /\ segs[k].Text = JoinedWords(First[e], e)

C19_Witness ==
    /\ Fallback
    /\ WordEntries = <<Word(<<"a">>, 0, 30), Word(<<"b">>, 0, 10),
                       Word(<<"a">>, 10, 30)>>
    /\ asrRet.Segments = <<ASRSegment(0, 30, <<"a">>),
                           ASRSegment(0, 30, <<"b", " ", "a">>)>>

\* C20: in the fallback no segment has an empty text, a non-empty word list
\* gives at least one segment and its last segment ends at the last word's
\* end, and an empty word list gives zero segments.
C20_ChunkTextAndEnd ==
    (Decoded /\ NonBlankUtterances = {}) =>
        LET ws   == WordEntries
            segs == asrRet.Segments
        IN  /\ \A k \in 1..Len(segs) : segs[k].Text # << >>
            /\ (ws # << >>) =>
                 /\ Len(segs) >= 1
                 /\ segs[Len(segs)].End = ws[Len(ws)].End
            /\ (ws = << >>) => segs = << >>

\* C21: every segment RunASR returns for a decoded response has End >= Start
\* and a text that is not empty and neither starts nor ends with a space, on
\* the utterance path and on the fallback path alike.
C21_SegmentInvariants ==
    Decoded =>
        \A k \in 1..Len(asrRet.Segments) :
            LET g == asrRet.Segments[k]
            IN  /\ g.End >= g.Start
                /\ g.Text # << >>
                /\ g.Text[1] # " "
                /\ g.Text[Len(g.Text)] # " "

\* C22: one invocation of RunASR sends exactly one request to Deepgram and
\* never a second one; when Do fails, the status is not 200 or the body does
\* not decode, RunASR returns an error and no segments, whatever the body held.
C22_OneRequestNoPartial ==
    /\ asrCalls <= 1
    /\ (asrPc \in {"call", "responded", "returned"}) => asrCalls = 1
    /\ (asrPc = "returned" /\ (~asrResp.doOK \/ asrResp.status # 200
                                             \/ ~asrResp.wellFormed)) =>
         /\ asrRet.err.isErr
         /\ asrRet.err.msg # << >>
         /\ asrRet.Segments = << >>
    /\ (asrPc = "returned" /\ asrRet.err.isErr) => ~Decoded

C22_Witness ==
    /\ asrPc = "returned"
    /\ asrCalls = 1
    /\ asrResp.status = 429
    /\ Len(asrResp.utterances) = 3
    /\ asrRet.err.isErr
    /\ asrRet.Segments = << >>

(***************************************************************************)
(* Properties of the request's course                                      *)
(***************************************************************************)
\* The phase of the request: 1 START (validation and input gathering under
\* way), 2 INPUTS_GATHERED, 3 STREAMS_RUNNING (launch decisions and the wait),
\* 4 AGGREGATED (the wait is over, the response is being assembled), 5 DONE.
Phase(p) ==
    CASE p \in {"start", "download_video", "download_meta", "download_images"} -> 1
      [] p = "gate_asr" -> 2
      [] p \in {"asr_skip", "asr_skip_write", "gate_vlm", "vlm_skip",
                "vlm_skip_write", "wait"} -> 3
      [] p = "respond" -> 4
      [] p = "done" -> 5

\* C23: the phase never decreases and advances one phase at a time, except
\* that a rejected request or a failed video download goes from phase 1
\* straight to DONE; the gathered inputs do not change after phase 1; a stream
\* goroutine exists only from phase 3 on; when the response is assembled every
\* launched goroutine has finished, its append included; and ServeHTTP appends
\* a skipped outcome in phase 3 whatever the other stream is doing.
C23_PhaseOrder ==
    [][/\ Phase(pc') \in {Phase(pc), Phase(pc) + 1}
          \/ (Phase(pc) = 1 /\ pc' = "done" /\ response'.status \notin {0, 200})
       /\ (Phase(pc) >= 2) =>
             UNCHANGED << videoBytes, keyframeMetas, gets, keyframeInputs >>
       /\ \A s \in Streams :
            /\ (spc'[s] # "idle") => Phase(pc') >= 3
            /\ (Phase(pc') >= 4) => spc'[s] \in {"idle", "done"}
            /\ (spc[s] # "done" /\ spc'[s] = "done") => spc[s] = "exit"
            /\ (spc'[s] = "exit" /\ spc[s] # "exit") => spc[s] = "unlock"
            /\ (spc'[s] = "unlock" /\ spc[s] # "unlock") =>
                   /\ spc[s] = "append_write"
                   /\ results'[Len(results')] = sr[s]
       /\ (Phase(pc') >= 4) => wg' = 0
       /\ (pc \in {"asr_skip_write", "vlm_skip_write"} /\ pc' # pc) =>
             /\ Phase(pc') = 3
             /\ results'[Len(results')].Status = "skipped"
             /\ results'[Len(results')].Stream =
                    (IF pc = "asr_skip_write" THEN "asr" ELSE "vlm")]_vars

C23_Witness ==
    /\ pc = "wait"
    /\ spc["asr"] = "run"
    /\ spc["vlm"] = "idle"
    /\ wg = 1
    /\ \E i \in 1..Len(results) :
          results[i].Stream = "vlm" /\ results[i].Status = "skipped"

\* The goroutine of s is inside its provider run or its storage write.
OnNetwork(s) == spc[s] \in {"run", "upload"}

\* C24: mu is held by a goroutine only from its Lock to its Unlock, around the
\* append; a goroutine inside its provider run or its storage write does not
\* hold it, so while one stream is there the other stream, when it reaches its
\* Lock, finds mu free.
C24_LockOnlyForAppend ==
    /\ mu \in {"free"} \cup Streams
    /\ \A s \in Streams :
         /\ (mu = s) <=> (spc[s] \in {"append_read", "append_write", "unlock"})
         /\ OnNetwork(s) => mu # s
    /\ \A a, b \in Streams :
         (a # b /\ OnNetwork(a) /\ spc[b] = "lock") => mu = "free"
    /\ (mu = "asr") => asrPc = "returned"
    /\ (mu = "vlm") => vlmPc = "returned"

C24_Witness ==
    /\ spc["vlm"] = "upload"
    /\ spc["asr"] = "append_write"
    /\ mu = "asr"

\* C25: every PutObject of a request goes to the key of one of the two
\* streams, the two keys differ, each stream writes at most once, and only
\* after its provider run returned without error, the value that run returned;
\* a stream that was not launched or whose run failed writes nothing; and no
\* step taken while RunASR or RunVLM is executing writes to the store.
C25_WritesAfterSuccess ==
    /\ [](/\ \A i \in 1..Len(puts) : i \in PutsOf("asr") \cup PutsOf("vlm")
          /\ PutsOf("asr") \cap PutsOf("vlm") = {}
          /\ \A s \in Streams :
               /\ Cardinality(PutsOf(s)) <= 1
               /\ (spc[s] \in {"idle", "run"} \/ RunFailed(s)) => PutsOf(s) = {}
               /\ \A i \in PutsOf(s) :
                    /\ (IF s = "asr" THEN asrPc ELSE vlmPc) = "returned"
                    /\ ~RunFailed(s)
                    /\ puts[i].Body = StreamOutput(s))
    /\ [][(puts' # puts) =>
            /\ Len(puts') = Len(puts) + 1
            /\ \E s \in Streams :
                 /\ spc[s] = "upload"
                 /\ spc'[s] # "upload"
                 /\ Len(puts') \in PutsOf(s)'
            /\ UNCHANGED << asrVars, vlmVars >>]_vars

C25_Witness ==
    /\ pc = "done"
    /\ RunFailed("asr")
    /\ PutsOf("asr") = {}
    /\ Cardinality(PutsOf("vlm")) = 1
    /\ Len(puts) = 1

\* Every keyframe of the launched visual stream was processed and every call
\* to Gemini returned an error.
AllFramesFailed ==
    /\ vlmPc = "returned"
    /\ Len(frameErrs) = Len(keyframeInputs)
    /\ \A k \in 1..Len(frameErrs) : frameErrs[k]

RECURSIVE SplitAt(_)
SplitAt(t) ==
    IF t = << >> THEN << << >> >>
    ELSE LET r == SplitAt(Tail(t))
         IN  IF Head(t) = " "
             THEN << << >> >> \o r
             ELSE << <<Head(t)>> \o Head(r) >> \o Tail(r)
\* The words read back from the returned segments, in segment order, and the
\* words that were handed to the chunker.
SegmentWords ==
    LET segs == asrRet.Segments
        f[k \in 0..Len(segs)] ==
            IF k = 0 THEN << >> ELSE f[k - 1] \o SplitAt(segs[k].Text)
    IN  f[Len(segs)]
InputWords == [i \in 1..Len(WordEntries) |-> WordEntries[i].Word]
SpaceFreeWords ==
    \A i \in 1..Len(WordEntries) :
        \A k \in 1..Len(WordEntries[i].Word) : WordEntries[i].Word[k] # " "
\* C27 as stated: in the fallback, cutting the segments' texts at spaces and
\* concatenating the pieces in segment order gives back the input words,
\* whatever the word tokens are.
C27_SplitReproducesAnyWords == Fallback => SegmentWords = InputWords
\* C27: in the fallback, when no word token contains a space, cutting each
\* segment's text at its single spaces and concatenating the pieces in segment
\* order gives back the input word sequence exactly: every word is in exactly
\* one segment, none lost, duplicated or reordered.
C27_ChunksPartitionWords ==
    (Fallback /\ SpaceFreeWords) => SegmentWords = InputWords
C27_Witness ==
    /\ Fallback
    /\ WordEntries = <<Word(<<"b">>, 0, 10), Word(<<"a">>, 10, 30),
                       Word(<<"b">>, 30, 40)>>
    /\ asrRet.Segments = <<ASRSegment(0, 30, <<"b", " ", "a">>),
                           ASRSegment(30, 40, <<"b">>)>>
    /\ SegmentWords = <<<<"b">>, <<"a">>, <<"b">>>>


\* C28: in the fallback, every segment closed on the threshold spans 3.0 s or
\* more and each word in it before the last ends less than 3.0 s after the
\* segment's start; a last segment flushed at the end of the input holds only
\* words that end less than 3.0 s after its start.
C28_OnlyLastWordReaches ==
    Fallback =>
        LET ws   == WordEntries
            segs == asrRet.Segments
            m    == Cardinality(Closing)
        IN  /\ Len(segs) \in {m, m + 1}
            /\ \A k \in 1..m :
                 LET e == KthClosing(k)
                 IN  /\ segs[k].End - segs[k].Start >= 30
                     /\ \A i \in First[e]..(e - 1) :
                          ws[i].End - segs[k].Start < 30
            /\ (Len(segs) = m + 1) =>
                 \A i \in First[Len(ws)]..Len(ws) :
                     ws[i].End - segs[m + 1].Start < 30
C28_Witness ==
    /\ Fallback
    /\ WordEntries = <<Word(<<"b">>, 0, 10), Word(<<"a">>, 30, 40),
                       Word(<<"b">>, 0, 10)>>
    /\ asrRet.Segments = <<ASRSegment(0, 40, <<"b", " ", "a">>),
                           ASRSegment(0, 10, <<"b">>)>>


\* C29: every outcome in a response has status success, error or skipped; a
\* success outcome has a non-empty storage key and no error message; an error
\* or skipped outcome has a non-empty message, no storage key and result
\* count 0.
C29_OutcomeConsistent ==
    \A i \in 1..Len(response.Streams) :
        LET o == response.Streams[i]
        IN  /\ o.Status \in {"success", "error", "skipped"}
            /\ (o.Status = "success") =>
                 /\ o.R2Key # << >>
                 /\ o.Error = << >>
            /\ (o.Status \in {"error", "skipped"}) =>
                 /\ o.Error # << >>
                 /\ o.R2Key = << >>
                 /\ o.ResultCount = 0
C29_Witness ==
    /\ pc = "done"
    /\ Len(response.Streams) = 2
    /\ \E i, j \in 1..2 :
         /\ response.Streams[i].Status = "success"
         /\ response.Streams[i].ResultCount > 0
         /\ response.Streams[j].Status = "error"
         /\ \E k \in 1..Len(puts) :
              /\ ~puts[k].ok
              /\ puts[k].Key = ResultKey(req.AdID, response.Streams[j].Stream)

====
